---- MODULE Spec2Model ----
(***************************************************************************)
(* UVC LINK: the device/stream lifecycle of App, CameraSelector and        *)
(* SmartHUD as a state machine.                                            *)
(*                                                                         *)
(* Strings the code inspects (device labels and ids) are sequences of      *)
(* one-character strings, so that toLowerCase, includes and slice are      *)
(* computed.  Strings the code only stores or compares are TLA+ strings.   *)
(* null and '' (both falsy, and treated alike by every test the code       *)
(* makes: !deviceId, !selectedDeviceId, label || fallback) are <<>>.       *)
(*                                                                         *)
(* React commits the state updates of one handler before the next event    *)
(* is handled; a handler, its state updates and the effects of the commit  *)
(* are one action.  A state update on an unmounted component is ignored.   *)
(***************************************************************************)
EXTENDS Integers, Sequences, FiniteSets, Bags, TLC

\* ------------------------------------------------------------------ bounds
\* Stream effect runs (device-id changes that reach startStream) in one run.
MaxEffects == 2
\* getDevices invocations that may be pending at the same time.
MaxScans == 1
\* Length of the device list the platform reports to a scan.
MaxDevices == 2
\* Analysis Client calls that may be outstanding (the code allows one).
MaxCalls == 2
\* Permission probes the platform grants in one run (each opens a stream).
MaxProbes == 2
\* requestFullscreen / exitFullscreen calls the platform has yet to process.
MaxFsCalls == 2

\* ------------------------------------------------------- string primitives
\* null, and the empty string: the code tests device ids and messages for
\* truthiness only (!deviceId, !selectedDeviceId, selectedDeviceId || ''),
\* which does not tell the two apart.
Null == <<>>

Chars(s) == {s[i] : i \in 1..Len(s)}

\* String.prototype.toLowerCase on the letters the labels use.
LowerOf(c) ==
    CASE c = "A" -> "a" [] c = "B" -> "b" [] c = "C" -> "c" [] c = "E" -> "e"
      [] c = "L" -> "l" [] c = "M" -> "m" [] c = "N" -> "n" [] c = "R" -> "r"
      [] c = "S" -> "s" [] c = "T" -> "t" [] c = "U" -> "u" [] c = "V" -> "v"
      [] c = "X" -> "x"
      [] OTHER -> c

toLowerCase(s) == [i \in 1..Len(s) |-> LowerOf(s[i])]

\* String.prototype.includes: sub occurs in s as a contiguous substring.
includes(s, sub) ==
    \E k \in 0..(Len(s) - Len(sub)) :
        \A j \in 1..Len(sub) : s[k + j] = sub[j]

\* String.prototype.slice(0, n).
slice(s, n) == SubSeq(s, 1, IF Len(s) < n THEN Len(s) ELSE n)

Str_usb == <<"u", "s", "b">>
Str_external == <<"e", "x", "t", "e", "r", "n", "a", "l">>
Str_uvc == <<"u", "v", "c">>
Str_Camera == <<"C", "a", "m", "e", "r", "a", " ">>
Str_dots == <<".", ".", ".">>

\* ------------------------------------------------------- platform devices
\* What enumerateDevices may report: MediaDeviceInfo {deviceId, kind, label}.
\* One camera without a label (it gets the fallback label) and one whose
\* label matches "uvc" only.
PlatformDevices ==
    { [deviceId |-> <<"a", "1">>, kind |-> "videoinput", label |-> <<>>],
      [deviceId |-> <<"b", "2">>, kind |-> "videoinput",
       label |-> <<"x", "U", "v", "C">>] }

\* A microphone whose label would match "usb": not a video input.
Microphone ==
    [deviceId |-> <<"m", "3">>, kind |-> "audioinput",
     label |-> <<"U", "S", "B", " ", "m", "i", "c">>]

\* The ordered lists, without repetition, of at most MaxDevices cameras, and
\* the lists of at most one camera with the microphone listed first.
CameraLists ==
    { l \in UNION { [1..k -> PlatformDevices] : k \in 0..MaxDevices } :
        \A i, j \in 1..Len(l) : i # j => l[i] # l[j] }

PlatformLists ==
    CameraLists \cup { <<Microphone>> \o l : l \in {c \in CameraLists : Len(c) <= 1} }

\* What enumerateDevices reports of a camera while the page may not see device
\* information (the permission was withdrawn, or the probing capture ended,
\* between the probe and the enumeration): an empty deviceId and label.
HiddenDevice == [deviceId |-> <<>>, kind |-> "videoinput", label |-> <<>>]

\* The lists of at most one camera, the hidden one included.
HiddenLists ==
    {<<>>, <<HiddenDevice>>} \cup { <<d>> : d \in PlatformDevices }

\* ------------------------------------------------------------------- state
VARIABLES
    phase,             \* App lifecycle: "init" (constructed), "mounted", "unmounted"
    snapshot,          \* which CameraSelector snapshot runs: "early" | "later"
    selectedDeviceId,  \* App state, passed to CameraSelector and SmartHUD
    unhandled,         \* a failure reached the top level of the page: an uncaught
                       \* exception or an unhandled promise rejection
    devices,           \* CameraSelector state: sequence of VideoDevice
    permissionGranted, \* CameraSelector state
    scans,             \* bag of the pending getDevices invocations, each with the
                       \* selectedDeviceId its closure captured and the await it is at
    openProbes,        \* permission-probing streams of getDevices with unstopped tracks
    listeners,         \* devicechange listeners registered by CameraSelector
    status,            \* SmartHUD state: ConnectionStatus
    errorMessage,      \* SmartHUD state: sequence of string pieces, Null for null
    needsUserAction,   \* SmartHUD state
    nEffects,          \* stream effect runs that reached startStream so far
    cleanupOf,         \* the effect run whose cleanup React holds (0: none)
    closures,          \* per effect run: deviceId, isMounted, currentStream, gum
    streams,           \* per effect run: the MediaStream its getUserMedia delivered
    srcObject,         \* videoRef.current.srcObject: the run whose stream is bound (0: null)
    plays,             \* pending play() promises of the video element, by origin
    isAnalyzing,       \* SmartHUD state
    aiResponse,        \* SmartHUD state
    lastAnalysisTime,  \* SmartHUD state: sequence of characters
    outstanding,       \* analyzeFrame calls not yet settled
    isFullscreen,      \* SmartHUD state
    fullscreenElement, \* whether document.fullscreenElement is the HUD container
    fsQueue            \* requestFullscreen / exitFullscreen calls the platform has not processed

appVars == <<phase, snapshot, selectedDeviceId, unhandled>>
selectorVars == <<devices, permissionGranted, scans, listeners, openProbes>>
hudVars == <<status, errorMessage, needsUserAction>>
streamVars == <<nEffects, cleanupOf, closures, streams, srcObject, plays>>
analysisVars == <<isAnalyzing, aiResponse, lastAnalysisTime, outstanding>>
fullscreenVars == <<isFullscreen, fullscreenElement, fsQueue>>
vars == <<appVars, selectorVars, hudVars, streamVars, analysisVars, fullscreenVars>>

Mounted == phase = "mounted"

\* ConnectionStatus
DISCONNECTED == "DISCONNECTED"
SCANNING == "SCANNING"
CONNECTED == "CONNECTED"
ERROR == "ERROR"

\* ------------------------------------------------- SmartHUD: stream effect
NoClosure == [deviceId |-> Null, isMounted |-> FALSE, currentStream |-> FALSE,
              gum |-> "none"]
NoStream == [opened |-> FALSE, stops |-> 0]

\* stream.getTracks().forEach(track => track.stop()) on the stream of run i.
stopTracks(st, i) == [st EXCEPT ![i].stops = @ + 1]

\* A stream of the controller that has unstopped tracks.
IsOpen(i) == streams[i].opened /\ streams[i].stops = 0

\* The effect's cleanup function (of the run React holds it for).
cleanupClosures(cl) ==
    IF cleanupOf = 0 THEN cl ELSE [cl EXCEPT ![cleanupOf].isMounted = FALSE]

\* Variants of cleanupStreams: a cleanup that stops the tracks twice, and one
\* that forgets to stop them.
cleanupStreamsTwice(st) ==
    IF cleanupOf # 0 /\ closures[cleanupOf].currentStream
    THEN stopTracks(stopTracks(st, cleanupOf), cleanupOf)
    ELSE st

cleanupStreamsForgotten(st) == st

cleanupStreams(st) ==
    IF cleanupOf # 0 /\ closures[cleanupOf].currentStream
    THEN stopTracks(st, cleanupOf)
    ELSE st

\* startStream, "Stop previous tracks": whatever is bound to the video element.
stopPrevious(st) == IF srcObject # 0 THEN stopTracks(st, srcObject) ELSE st

\* Variant of startStream: the recorded error message and the needs-gesture
\* flag are left as they were.
startStreamNoReset(id, cl, st) ==
    /\ nEffects < MaxEffects
    /\ nEffects' = nEffects + 1
    /\ cleanupOf' = nEffects + 1
    /\ status' = SCANNING
    /\ streams' = stopPrevious(st)
    /\ closures' = [cl EXCEPT ![nEffects + 1] =
                       [deviceId |-> id, isMounted |-> TRUE,
                        currentStream |-> FALSE, gum |-> "pending"]]
    /\ UNCHANGED <<errorMessage, needsUserAction, srcObject, plays>>

\* startStream up to its await: the state reset, the previous tracks stopped,
\* getUserMedia requested for exactly this device id.
startStream(id, cl, st) ==
    /\ nEffects < MaxEffects
    /\ nEffects' = nEffects + 1
    /\ cleanupOf' = nEffects + 1
    /\ status' = SCANNING
    /\ errorMessage' = Null
    /\ needsUserAction' = FALSE
    /\ streams' = stopPrevious(st)
    /\ closures' = [cl EXCEPT ![nEffects + 1] =
                       [deviceId |-> id, isMounted |-> TRUE,
                        currentStream |-> FALSE, gum |-> "pending"]]
    /\ UNCHANGED <<srcObject, plays>>

\* useEffect(..., [deviceId]) at a commit that changes deviceId: the previous
\* run's cleanup, then the effect body.
streamEffect(id) ==
    IF id = Null
    THEN /\ cleanupOf' = 0
         /\ closures' = cleanupClosures(closures)
         /\ streams' = cleanupStreams(streams)
         /\ UNCHANGED <<hudVars, nEffects, srcObject, plays>>
    ELSE startStream(id, cleanupClosures(closures), cleanupStreams(streams))

\* App: onSelect = setSelectedDeviceId, and the commit that follows.  Setting
\* the value it already has, or setting it after unmount, changes nothing.
onSelect(id) ==
    IF Mounted /\ id # selectedDeviceId
    THEN selectedDeviceId' = id /\ streamEffect(id)
    ELSE UNCHANGED <<selectedDeviceId, hudVars, streamVars>>

\* ---------------------------------------------- SmartHUD: async completions
\* The platform failure names getUserMedia may reject with.
ErrorNames == {"NotReadableError", "OverconstrainedError", "NotAllowedError",
               "NotFoundError"}

\* err.message of a platform failure.
errMessage(name) == "Requested device not found"

\* Variant of errorMessageFor: the busy and the permission messages swapped,
\* and a generic message without err.name.
errorMessageSwapped(name) ==
    IF name = "NotReadableError" THEN <<"Permission Denied.">>
    ELSE IF name = "OverconstrainedError" THEN <<"Resolution not supported.">>
    ELSE IF name = "NotAllowedError" THEN <<"System Busy. Close other camera apps.">>
    ELSE <<errMessage(name)>>

\* startStream's catch block: the message recorded for err.
errorMessageFor(name) ==
    IF name = "NotReadableError" THEN <<"System Busy. Close other camera apps.">>
    ELSE IF name = "OverconstrainedError" THEN <<"Resolution not supported.">>
    ELSE IF name = "NotAllowedError" THEN <<"Permission Denied.">>
    ELSE <<name, ": ", errMessage(name)>>

\* attemptPlay after "await videoRef.current.play()" resolved / rejected, as
\* updates of h = [status, needsUserAction].
playThen(h) == [h EXCEPT !.status = CONNECTED, !.needsUserAction = FALSE]
playCatch(h) == [h EXCEPT !.needsUserAction = TRUE]

hud == [status |-> status, needsUserAction |-> needsUserAction]

\* The state updates of a continuation are applied while the component is mounted.
commitHud(h) ==
    /\ status' = (IF Mounted THEN h.status ELSE status)
    /\ needsUserAction' = (IF Mounted THEN h.needsUserAction ELSE needsUserAction)

\* Variant of isStale: no isMounted test after the await.
isStaleNever(i) == FALSE

\* startStream after "await getUserMedia" resolved: the late stream of a run
\* whose cleanup has run is stopped and dropped.
isStale(i) == ~closures[i].isMounted

\* getUserMedia of run i resolves with a stream.  Binding it to the video
\* element runs the element's load algorithm, which settles the play()
\* promises still pending on it (old: resolved if their resolution was already
\* queued, else rejected with AbortError); attemptPlay's own play() is either
\* refused on the spot (b = "blocked") or left pending.
GumResolve(i) ==
    /\ closures[i].gum = "pending"
    /\ LET st == [streams EXCEPT ![i].opened = TRUE]
       IN  IF isStale(i)
           THEN /\ streams' = stopTracks(st, i)
                /\ closures' = [closures EXCEPT ![i].gum = "resolved"]
                /\ UNCHANGED <<hudVars, srcObject, plays>>
           ELSE /\ streams' = st
                /\ closures' = [closures EXCEPT ![i].gum = "resolved",
                                                ![i].currentStream = TRUE]
                /\ IF Mounted
                   THEN /\ srcObject' = i
                        /\ \E old \in (IF plays = {} THEN {"none"}
                                       ELSE {"resolve", "reject"}),
                              b \in {"blocked", "pending"} :
                              LET h1 == IF old = "resolve" THEN playThen(hud)
                                        ELSE IF old = "reject" THEN playCatch(hud)
                                        ELSE hud
                                  h2 == IF b = "blocked" THEN playCatch(h1) ELSE h1
                              IN  /\ commitHud(h2)
                                  /\ plays' = (IF b = "pending" THEN {"auto"} ELSE {})
                        /\ UNCHANGED errorMessage
                   ELSE UNCHANGED <<hudVars, srcObject, plays>>
    /\ UNCHANGED <<appVars, selectorVars, nEffects, cleanupOf, analysisVars, fullscreenVars>>

\* Variant of GumReject: the catch block asks for the same device again.
GumRejectRetry(i, name) ==
    /\ closures[i].gum = "pending"
    /\ IF Mounted /\ nEffects < MaxEffects
       THEN /\ nEffects' = nEffects + 1
            /\ closures' = [closures EXCEPT
                               ![i].gum = "rejected",
                               ![nEffects + 1] =
                                   [deviceId |-> closures[i].deviceId, isMounted |-> TRUE,
                                    currentStream |-> FALSE, gum |-> "pending"]]
       ELSE /\ closures' = [closures EXCEPT ![i].gum = "rejected"]
            /\ UNCHANGED nEffects
    /\ status' = (IF Mounted THEN ERROR ELSE status)
    /\ errorMessage' = (IF Mounted THEN errorMessageFor(name) ELSE errorMessage)
    /\ UNCHANGED <<appVars, selectorVars, needsUserAction, cleanupOf,
                   streams, srcObject, plays, analysisVars, fullscreenVars>>

\* getUserMedia of run i rejects: startStream's catch block.
GumReject(i, name) ==
    /\ closures[i].gum = "pending"
    /\ closures' = [closures EXCEPT ![i].gum = "rejected"]
    /\ status' = (IF Mounted THEN ERROR ELSE status)
    /\ errorMessage' = (IF Mounted THEN errorMessageFor(name) ELSE errorMessage)
    /\ UNCHANGED <<appVars, selectorVars, needsUserAction, nEffects, cleanupOf,
                   streams, srcObject, plays, analysisVars, fullscreenVars>>

\* The play() promises pending on the video element settle (together: the
\* platform resolves or rejects the whole list).
PlaySettle(o) ==
    /\ plays # {}
    /\ plays' = {}
    /\ commitHud(IF o = "resolve" THEN playThen(hud) ELSE playCatch(hud))
    /\ UNCHANGED <<appVars, selectorVars, errorMessage, nEffects, cleanupOf,
                   closures, streams, srcObject, analysisVars, fullscreenVars>>

\* "Tap to Start Feed": onClick={attemptPlay}, rendered while needsUserAction.
TapToStart(b) ==
    /\ Mounted
    /\ needsUserAction
    /\ IF b = "blocked"
       THEN commitHud(playCatch(hud)) /\ UNCHANGED plays
       ELSE plays' = plays \cup {"user"} /\ UNCHANGED <<status, needsUserAction>>
    /\ UNCHANGED <<appVars, selectorVars, errorMessage, nEffects, cleanupOf,
                   closures, streams, srcObject, analysisVars, fullscreenVars>>

\* --------------------------------------------------------- CameraSelector
isVideoInput(device) == device.kind = "videoinput"

\* device.label || `Camera ${device.deviceId.slice(0, 5)}...`
labelOf(device) ==
    IF device.label # <<>> THEN device.label
    ELSE Str_Camera \o slice(device.deviceId, 5) \o Str_dots

\* allDevices.filter(kind === 'videoinput').map(...)
videoDevicesOf(allDevices) ==
    LET vids == SelectSeq(allDevices, isVideoInput)
    IN  [i \in 1..Len(vids) |->
            [deviceId |-> vids[i].deviceId, label |-> labelOf(vids[i])]]

\* The label test of the auto-select, in each snapshot of CameraSelector.
looksExternalEarly(d) ==
    \/ includes(toLowerCase(d.label), Str_usb)
    \/ includes(toLowerCase(d.label), Str_external)

looksExternalLater(d) ==
    \/ includes(toLowerCase(d.label), Str_usb)
    \/ includes(toLowerCase(d.label), Str_external)
    \/ includes(toLowerCase(d.label), Str_uvc)

\* videoDevices.find(d => ...): <<x>> for the first element x passing the
\* label test of the given snapshot, <<>> for undefined.
findExternal(videoDevices, snap) ==
    LET hits == IF snap = "early" THEN SelectSeq(videoDevices, looksExternalEarly)
                ELSE SelectSeq(videoDevices, looksExternalLater)
    IN  IF hits = <<>> THEN <<>> ELSE <<Head(hits)>>

\* external ? external.deviceId : videoDevices[0].deviceId
autoSelect(videoDevices, snap) ==
    LET external == findExternal(videoDevices, snap)
    IN  IF external # <<>> THEN external[1].deviceId ELSE videoDevices[1].deviceId

\* getDevices up to its first await, in a closure that captured sel as
\* selectedDeviceId: the permission probe getUserMedia({video: true}) is requested.
getDevices(sel) ==
    /\ BagCardinality(scans) < MaxScans
    /\ scans' = scans (+) SetToBag({[sel |-> sel, at |-> "getUserMedia"]})

\* The probe of pending scan s resolves: setPermissionGranted(true), then
\* enumerateDevices is requested.  The MediaStream the probe resolved with is
\* not kept in any variable, and none of its tracks is stopped.
ProbeResolve(s) ==
    /\ BagIn(s, scans)
    /\ s.at = "getUserMedia"
    /\ openProbes < MaxProbes
    /\ openProbes' = openProbes + 1
    /\ permissionGranted' = (IF Mounted THEN TRUE ELSE permissionGranted)
    /\ scans' = (scans (-) SetToBag({s}))
                    (+) SetToBag({[s EXCEPT !.at = "enumerateDevices"]})
    /\ UNCHANGED <<appVars, devices, listeners, hudVars, streamVars, analysisVars,
                   fullscreenVars>>

\* An await of pending scan s rejects: the catch block.
ScanReject(s) ==
    /\ BagIn(s, scans)
    /\ permissionGranted' = (IF Mounted THEN FALSE ELSE permissionGranted)
    /\ scans' = scans (-) SetToBag({s})
    /\ UNCHANGED <<appVars, devices, listeners, openProbes, hudVars, streamVars,
                   analysisVars, fullscreenVars>>

\* The auto-select test of a scan whose closure captured sel.
shouldAutoSelect(sel, videoDevices) == sel = Null /\ Len(videoDevices) > 0

\* enumerateDevices of pending scan s resolves with allDevices.
EnumResolve(s, allDevices) ==
    /\ BagIn(s, scans)
    /\ s.at = "enumerateDevices"
    /\ LET videoDevices == videoDevicesOf(allDevices)
       IN  /\ devices' = (IF Mounted THEN videoDevices ELSE devices)
           /\ IF shouldAutoSelect(s.sel, videoDevices)
              THEN onSelect(autoSelect(videoDevices, snapshot))
              ELSE UNCHANGED <<selectedDeviceId, hudVars, streamVars>>
    /\ scans' = scans (-) SetToBag({s})
    /\ UNCHANGED <<phase, snapshot, unhandled, permissionGranted, listeners, openProbes,
                   analysisVars, fullscreenVars>>

\* The platform's devicechange notification: the listener is the getDevices of
\* the first render, whose closure holds the initial selectedDeviceId (null).
DeviceChange ==
    /\ listeners > 0
    /\ getDevices(Null)
    /\ UNCHANGED <<appVars, devices, permissionGranted, listeners, openProbes, hudVars,
                   streamVars, analysisVars, fullscreenVars>>

\* The Scan button (later snapshot): the getDevices of the current render.
ScanClick ==
    /\ Mounted
    /\ snapshot = "later"
    /\ permissionGranted
    /\ getDevices(selectedDeviceId)
    /\ UNCHANGED <<appVars, devices, permissionGranted, listeners, openProbes, hudVars,
                   streamVars, analysisVars, fullscreenVars>>

\* The user picks a listed device in the <select>.
UserSelect(k) ==
    /\ Mounted
    /\ permissionGranted
    /\ k \in 1..Len(devices)
    /\ devices[k].deviceId # selectedDeviceId
    /\ onSelect(devices[k].deviceId)
    /\ UNCHANGED <<phase, snapshot, unhandled, selectorVars, analysisVars, fullscreenVars>>

\* ------------------------------------------------------------ App lifecycle
\* navigator.mediaDevices.addEventListener('devicechange', getDevices) and
\* removeEventListener with the same function, as updates of the number of
\* registered listeners l.  Both are called from the effect with the empty
\* dependency list: the first on the first commit, the second in its cleanup.
addEventListener(l) == l + 1

\* Variant of removeEventListener: called with a function that was never
\* registered, which removes nothing.
removeEventListenerOther(l) == l

removeEventListener(l) == l - 1

\* First commit: CameraSelector's effect scans and subscribes; SmartHUD's
\* stream effect returns at once (deviceId is null).
Mount ==
    /\ phase = "init"
    /\ phase' = "mounted"
    /\ getDevices(selectedDeviceId)
    /\ listeners' = addEventListener(listeners)
    /\ UNCHANGED <<openProbes, snapshot, selectedDeviceId, unhandled, devices, permissionGranted,
                   hudVars, streamVars, analysisVars, fullscreenVars>>

\* Teardown: the cleanups of both components run, and the container leaves
\* the document (which ends its fullscreen).
Unmount ==
    /\ Mounted
    /\ phase' = "unmounted"
    /\ listeners' = removeEventListener(listeners)
    /\ cleanupOf' = 0
    /\ closures' = cleanupClosures(closures)
    /\ streams' = cleanupStreams(streams)
    /\ fullscreenElement' = FALSE
    /\ UNCHANGED <<snapshot, selectedDeviceId, unhandled, devices, permissionGranted, scans,
                   openProbes, hudVars, nEffects, srcObject, plays, analysisVars,
                   isFullscreen, fsQueue>>

\* ------------------------------------------- SmartHUD: capture and analyze
NoResponse == "<null>"
NoVideoData == "Error: No video data (0x0 resolution)"
AnalysisFailed == "Analysis failed. Check API configuration."
NoAnalysisData == "No analysis data returned."
SampleText == "A wooden table with a laptop."

\* video.videoWidth / video.videoHeight at capture time.
Widths == {0, 640}
Heights == {0, 480}

\* Variant of analyzeDisabled: the status test left out.
analyzeDisabledWhileBusy == isAnalyzing

\* The Analyze Scene button's disabled attribute.
analyzeDisabled == status # CONNECTED \/ isAnalyzing

\* Variant of handleCaptureAndAnalyze: setIsAnalyzing(true) left out.
handleCaptureUnflagged(w, h, ctx) ==
    IF ~Mounted \/ isAnalyzing
    THEN UNCHANGED analysisVars
    ELSE IF w = 0 \/ h = 0
    THEN /\ aiResponse' = NoVideoData
         /\ isAnalyzing' = FALSE
         /\ UNCHANGED outstanding
    ELSE IF ~ctx
    THEN /\ aiResponse' = NoResponse
         /\ UNCHANGED <<isAnalyzing, outstanding>>
    ELSE /\ outstanding < MaxCalls
         /\ aiResponse' = NoResponse
         /\ outstanding' = outstanding + 1
         /\ UNCHANGED isAnalyzing

\* Variant of handleCaptureAndAnalyze: the dimension check left out.
handleCaptureUnguarded(w, h, ctx) ==
    IF ~Mounted \/ isAnalyzing
    THEN UNCHANGED analysisVars
    ELSE IF ~ctx
    THEN /\ isAnalyzing' = TRUE
         /\ aiResponse' = NoResponse
         /\ UNCHANGED outstanding
    ELSE /\ outstanding < MaxCalls
         /\ isAnalyzing' = TRUE
         /\ aiResponse' = NoResponse
         /\ outstanding' = outstanding + 1

\* handleCaptureAndAnalyze up to its await, for a video surface of w x h and
\* a canvas whose getContext('2d') gives a context (ctx) or null.
handleCaptureAndAnalyze(w, h, ctx) ==
    IF ~Mounted \/ isAnalyzing
    THEN UNCHANGED analysisVars
    ELSE IF w = 0 \/ h = 0
    THEN /\ aiResponse' = NoVideoData
         /\ isAnalyzing' = FALSE
         /\ UNCHANGED outstanding
    ELSE IF ~ctx
    THEN /\ isAnalyzing' = TRUE
         /\ aiResponse' = NoResponse
         /\ UNCHANGED outstanding
    ELSE /\ outstanding < MaxCalls
         /\ isAnalyzing' = TRUE
         /\ aiResponse' = NoResponse
         /\ outstanding' = outstanding + 1

\* A click on the Analyze Scene button: a disabled button dispatches nothing.
ClickAnalyze(w, h, ctx) ==
    /\ Mounted
    /\ IF analyzeDisabled
       THEN UNCHANGED analysisVars
       ELSE handleCaptureAndAnalyze(w, h, ctx)
    /\ UNCHANGED <<lastAnalysisTime, appVars, selectorVars, hudVars, streamVars, fullscreenVars>>

\* A click on the enabled button where ctx.drawImage or canvas.toDataURL
\* throws: both stand before the try block, so the handler's promise rejects
\* with nothing to handle it, after setIsAnalyzing(true) and setAiResponse(null).
ClickAnalyzeThrows(w, h) ==
    /\ Mounted
    /\ ~analyzeDisabled
    /\ w # 0 /\ h # 0
    /\ isAnalyzing' = TRUE
    /\ aiResponse' = NoResponse
    /\ unhandled' = TRUE
    /\ UNCHANGED <<lastAnalysisTime, outstanding, phase, snapshot, selectedDeviceId,
                   selectorVars, hudVars, streamVars, fullscreenVars>>

\* What becomes of an analyzeFrame call: the service answers with text, with
\* an empty text, or the call fails (no API key, service unreachable, input
\* rejected by the service).
AnalysisOutcomes == {"text", "empty", "noKey", "unreachable", "rejected"}

\* The error each failure raises inside analyzeFrame's try block.
RawError(r) ==
    IF r = "noKey" THEN "API Key not found via process.env.API_KEY"
    ELSE IF r = "unreachable" THEN "Failed to fetch"
    ELSE "Request contains an invalid argument."

\* analyzeFrame's catch block: whatever was raised is logged and replaced.
rethrow(error) == "Visual cortex analysis failed."

\* analyzeFrame: resolves with response.text || "No analysis data returned.",
\* or rejects with what its catch block throws.
analyzeFrame(r) ==
    IF r = "text" THEN [threw |-> FALSE, value |-> SampleText]
    ELSE IF r = "empty" THEN [threw |-> FALSE, value |-> NoAnalysisData]
    ELSE [threw |-> TRUE, value |-> rethrow(RawError(r))]

\* Variant of captureCatch: the caught error's message is displayed.
captureCatchRaw(e) == e

\* The handler's catch block: the text displayed for the caught error e.
captureCatch(e) == AnalysisFailed

\* The wall clock read by new Date(): hours, minutes, seconds.
Clock == { [h |-> 9, m |-> 5, s |-> 0], [h |-> 23, m |-> 59, s |-> 47] }

Digits == <<"0", "1", "2", "3", "4", "5", "6", "7", "8", "9">>

\* Number.prototype.toString of a natural number: decimal digits, no leading zero.
RECURSIVE toString(_)
toString(n) ==
    IF n < 10 THEN <<Digits[n + 1]>>
    ELSE toString(n \div 10) \o <<Digits[(n % 10) + 1]>>

\* Variant of padStart: no padding.
padStartNone(str, targetLength, padChar) == str

\* String.prototype.padStart with a one-character pad string.
RECURSIVE padStart(_, _, _)
padStart(str, targetLength, padChar) ==
    IF Len(str) >= targetLength THEN str
    ELSE padStart(<<padChar>> \o str, targetLength, padChar)

\* `${hours padded}:${minutes padded}:${seconds padded}`
formatTime(now) ==
    padStart(toString(now.h), 2, "0") \o <<":">> \o
    padStart(toString(now.m), 2, "0") \o <<":">> \o
    padStart(toString(now.s), 2, "0")

NoTime == <<"-", "-", ":", "-", "-">>

\* Variant of AnalyzeSettle: a failed call also puts the HUD in ERROR.
AnalyzeSettleToError(r, now) ==
    /\ outstanding > 0
    /\ outstanding' = outstanding - 1
    /\ LET result == analyzeFrame(r)
       IN  /\ aiResponse' = (IF ~Mounted THEN aiResponse
                              ELSE IF result.threw THEN captureCatch(result.value)
                              ELSE result.value)
           /\ lastAnalysisTime' = (IF Mounted /\ ~result.threw THEN formatTime(now)
                                   ELSE lastAnalysisTime)
           /\ status' = (IF Mounted /\ result.threw THEN ERROR ELSE status)
    /\ isAnalyzing' = (IF Mounted THEN FALSE ELSE isAnalyzing)
    /\ UNCHANGED <<appVars, selectorVars, errorMessage, needsUserAction, streamVars,
                   fullscreenVars>>

\* The analyzeFrame call settles at wall-clock time now: try / catch / finally
\* of the handler.
AnalyzeSettle(r, now) ==
    /\ outstanding > 0
    /\ outstanding' = outstanding - 1
    /\ LET result == analyzeFrame(r)
       IN  /\ aiResponse' = (IF ~Mounted THEN aiResponse
                              ELSE IF result.threw THEN captureCatch(result.value)
                              ELSE result.value)
           /\ lastAnalysisTime' = (IF Mounted /\ ~result.threw THEN formatTime(now)
                                   ELSE lastAnalysisTime)
    /\ isAnalyzing' = (IF Mounted THEN FALSE ELSE isAnalyzing)
    /\ UNCHANGED <<appVars, selectorVars, hudVars, streamVars, fullscreenVars>>

\* ---------------------------------------------------- SmartHUD: fullscreen
\* .then(() => setIsFullscreen(true)) / .then(() => setIsFullscreen(false))
requestThen(flag) == TRUE
exitThen(flag) == FALSE

\* Variant of handleChange: the flag is toggled.
handleChangeToggle(flag, element) == ~flag

\* The fullscreenchange listener: setIsFullscreen(!!document.fullscreenElement).
handleChange(flag, element) == element

\* The flag after a platform step that leaves document.fullscreenElement at
\* element: the promise continuation (when the promise resolves) and the
\* fullscreenchange listener (when the element changed) run in the frame of
\* the step, in either order, while the component is mounted.
fullscreenSettled(resolved, changed, element, order) ==
    LET viaThen(f) == IF ~resolved THEN f
                      ELSE IF element THEN requestThen(f) ELSE exitThen(f)
        viaEvent(f) == IF changed THEN handleChange(f, element) ELSE f
    IN  IF ~Mounted THEN isFullscreen
        ELSE IF order = "thenFirst" THEN viaEvent(viaThen(isFullscreen))
        ELSE viaThen(viaEvent(isFullscreen))

\* toggleFullscreen: the fullscreen button's onClick.
toggleFullscreen ==
    /\ Mounted
    /\ Len(fsQueue) < MaxFsCalls
    /\ fsQueue' = Append(fsQueue, IF ~fullscreenElement THEN "request" ELSE "exit")
    /\ UNCHANGED <<isFullscreen, fullscreenElement>>
    /\ UNCHANGED <<appVars, selectorVars, hudVars, streamVars, analysisVars>>

\* The platform grants the requestFullscreen call at the head of the queue.
FullscreenGranted(order) ==
    /\ fsQueue # <<>>
    /\ Head(fsQueue) = "request"
    /\ Mounted
    /\ fsQueue' = Tail(fsQueue)
    /\ fullscreenElement' = TRUE
    /\ isFullscreen' = fullscreenSettled(TRUE, ~fullscreenElement, TRUE, order)
    /\ UNCHANGED <<appVars, selectorVars, hudVars, streamVars, analysisVars>>

\* The platform refuses it (or the container has left the document): the
\* promise rejects, fullscreenerror is fired, .catch(console.error) runs.
FullscreenDenied ==
    /\ fsQueue # <<>>
    /\ Head(fsQueue) = "request"
    /\ fsQueue' = Tail(fsQueue)
    /\ UNCHANGED <<isFullscreen, fullscreenElement>>
    /\ UNCHANGED <<appVars, selectorVars, hudVars, streamVars, analysisVars>>

\* The platform processes the exitFullscreen call at the head of the queue:
\* the promise resolves, also when fullscreen has already ended.
FullscreenExited(order) ==
    /\ fsQueue # <<>>
    /\ Head(fsQueue) = "exit"
    /\ fsQueue' = Tail(fsQueue)
    /\ fullscreenElement' = FALSE
    /\ isFullscreen' = fullscreenSettled(TRUE, fullscreenElement, FALSE, order)
    /\ UNCHANGED <<appVars, selectorVars, hudVars, streamVars, analysisVars>>

\* The platform rejects the exitFullscreen call at the head of the queue (the
\* document is no longer fully active, or the platform refuses): the .then is
\* skipped and the chain has no .catch.
FullscreenExitFailed ==
    /\ fsQueue # <<>>
    /\ Head(fsQueue) = "exit"
    /\ fsQueue' = Tail(fsQueue)
    /\ unhandled' = TRUE
    /\ UNCHANGED <<isFullscreen, fullscreenElement>>
    /\ UNCHANGED <<phase, snapshot, selectedDeviceId, selectorVars, hudVars,
                   streamVars, analysisVars>>

\* The user leaves fullscreen with the platform's own control (Esc).
FullscreenEscaped ==
    /\ fullscreenElement
    /\ fullscreenElement' = FALSE
    /\ isFullscreen' = fullscreenSettled(FALSE, TRUE, FALSE, "eventFirst")
    /\ UNCHANGED fsQueue
    /\ UNCHANGED <<appVars, selectorVars, hudVars, streamVars, analysisVars>>

\* ------------------------------------------------- SmartHUD: error overlay
\* "Refresh System" on the error overlay, rendered while status is ERROR:
\* window.location.reload().  The page and everything it holds (pending
\* promises, streams) goes away and the application is constructed anew.
Reload ==
    /\ Mounted
    /\ status = ERROR
    /\ phase' = "init"
    /\ selectedDeviceId' = Null
    /\ unhandled' = FALSE
    /\ devices' = <<>>
    /\ permissionGranted' = FALSE
    /\ scans' = EmptyBag
    /\ listeners' = 0
    /\ openProbes' = 0
    /\ status' = DISCONNECTED
    /\ errorMessage' = Null
    /\ needsUserAction' = FALSE
    /\ nEffects' = 0
    /\ cleanupOf' = 0
    /\ closures' = [i \in 1..MaxEffects |-> NoClosure]
    /\ streams' = [i \in 1..MaxEffects |-> NoStream]
    /\ srcObject' = 0
    /\ plays' = {}
    /\ isAnalyzing' = FALSE
    /\ aiResponse' = NoResponse
    /\ lastAnalysisTime' = NoTime
    /\ outstanding' = 0
    /\ isFullscreen' = FALSE
    /\ fullscreenElement' = FALSE
    /\ fsQueue' = <<>>
    /\ UNCHANGED snapshot

\* ----------------------------------------------------------- specification
Init ==
    /\ phase = "init"
    /\ snapshot \in {"early", "later"}
    /\ selectedDeviceId = Null
    /\ unhandled = FALSE
    /\ devices = <<>>
    /\ permissionGranted = FALSE
    /\ scans = EmptyBag
    /\ listeners = 0
    /\ openProbes = 0
    /\ status = DISCONNECTED
    /\ errorMessage = Null
    /\ needsUserAction = FALSE
    /\ nEffects = 0
    /\ cleanupOf = 0
    /\ closures = [i \in 1..MaxEffects |-> NoClosure]
    /\ streams = [i \in 1..MaxEffects |-> NoStream]
    /\ srcObject = 0
    /\ plays = {}
    /\ isAnalyzing = FALSE
    /\ aiResponse = NoResponse
    /\ lastAnalysisTime = NoTime
    /\ outstanding = 0
    /\ isFullscreen = FALSE
    /\ fullscreenElement = FALSE
    /\ fsQueue = <<>>

\* The Device Enumerator's and the user's steps.
SelectorNext ==
    \/ DeviceChange
    \/ ScanClick
    \/ \E s \in BagToSet(scans) : ProbeResolve(s)
    \/ \E s \in BagToSet(scans) : ScanReject(s)
    \/ \E s \in BagToSet(scans), l \in PlatformLists : EnumResolve(s, l)
    \/ \E k \in 1..MaxDevices : UserSelect(k)

\* The Stream Controller's asynchronous completions and the play gesture.
StreamNext ==
    \/ \E i \in 1..MaxEffects : GumResolve(i)
    \/ \E i \in 1..MaxEffects, name \in ErrorNames : GumReject(i, name)
    \/ \E o \in {"resolve", "reject"} : PlaySettle(o)
    \/ \E b \in {"blocked", "pending"} : TapToStart(b)
    \/ Reload

\* Fullscreen.
FullscreenNext ==
    \/ toggleFullscreen
    \/ \E order \in {"thenFirst", "eventFirst"} : FullscreenGranted(order)
    \/ FullscreenDenied
    \/ \E order \in {"thenFirst", "eventFirst"} : FullscreenExited(order)
    \/ FullscreenExitFailed
    \/ FullscreenEscaped

\* Capture-and-analyze.
CaptureNext ==
    \/ \E w \in Widths, h \in Heights, ctx \in BOOLEAN : ClickAnalyze(w, h, ctx)
    \/ \E w \in Widths, h \in Heights : ClickAnalyzeThrows(w, h)
    \/ \E r \in AnalysisOutcomes, now \in Clock : AnalyzeSettle(r, now)

Next ==
    Mount \/ Unmount \/ SelectorNext \/ StreamNext \/ CaptureNext \/ FullscreenNext

Spec == Init /\ [][Next]_vars

\* The device/stream lifecycle alone.  The capture actions change only
\* analysisVars and no other action reads them, so every behaviour of Spec,
\* restricted to the other variables, is a behaviour of StreamSpec.
LifecycleNext == Mount \/ Unmount \/ SelectorNext \/ StreamNext

StreamSpec == Init /\ [][LifecycleNext]_vars

\* Capture-and-analyze over a lifecycle with the mount-time scan only (no
\* devicechange notification, no Scan button): the capture actions read
\* status and phase alone, which this lifecycle drives through every value.
CaptureLifecycleNext ==
    \/ Mount
    \/ Unmount
    \/ \E s \in BagToSet(scans) : ProbeResolve(s)
    \/ \E s \in BagToSet(scans) : ScanReject(s)
    \/ \E s \in BagToSet(scans), l \in PlatformLists : EnumResolve(s, l)
    \/ \E k \in 1..MaxDevices : UserSelect(k)
    \/ StreamNext
    \/ CaptureNext

CaptureSpec == Init /\ [][CaptureLifecycleNext]_vars

\* The same, where every Analysis Client call is eventually answered.
CaptureLiveSpec ==
    /\ CaptureSpec
    /\ WF_vars(\E r \in AnalysisOutcomes, now \in Clock : AnalyzeSettle(r, now))

\* The fullscreen control over the same lifecycle, without the capture handler.
FullscreenLifecycleNext ==
    \/ Mount
    \/ Unmount
    \/ \E s \in BagToSet(scans) : ProbeResolve(s)
    \/ \E s \in BagToSet(scans) : ScanReject(s)
    \/ \E s \in BagToSet(scans), l \in PlatformLists : EnumResolve(s, l)
    \/ \E k \in 1..MaxDevices : UserSelect(k)
    \/ StreamNext
    \/ FullscreenNext

FullscreenSpec == Init /\ [][FullscreenLifecycleNext]_vars

\* The device/stream lifecycle on a platform that may hide device information
\* from an enumeration, with device lists of at most one camera.
HiddenIdNext ==
    \/ Mount
    \/ Unmount
    \/ DeviceChange
    \/ ScanClick
    \/ \E s \in BagToSet(scans) : ProbeResolve(s)
    \/ \E s \in BagToSet(scans) : ScanReject(s)
    \/ \E s \in BagToSet(scans), l \in HiddenLists : EnumResolve(s, l)
    \/ \E k \in 1..MaxDevices : UserSelect(k)
    \/ StreamNext

HiddenIdSpec == Init /\ [][HiddenIdNext]_vars

\* ------------------------------------------------------------------ claims
Runs == 1..MaxEffects

OpenStreams == {i \in Runs : IsOpen(i)}

\* C1: at most one stream opened by the controller has unstopped tracks at
\* any time, and while the request for the new device id is outstanding
\* (from the moment it is issued) no stream of the controller is open: every
\* track of the previously held stream has been stopped by then.
C1_OneOpenStream ==
    /\ Cardinality(OpenStreams) <= 1
    /\ \A i \in Runs :
          closures[i].isMounted /\ closures[i].gum = "pending" => OpenStreams = {}

\* A second request is outstanding and the stream held before it, which was
\* bound and open, is stopped.
C1_Witness ==
    /\ nEffects = 2
    /\ closures[2].gum = "pending"
    /\ closures[1].currentStream
    /\ streams[1].stops > 0

\* C7: unmounting while the controller holds an open stream stops every track
\* of that stream exactly once: the unmount step takes its stop count from 0
\* to 1, and nothing stops an existing stream again after unmount.
C7_UnmountStopsOnce ==
    [][ /\ (Mounted /\ phase' = "unmounted") =>
             \A i \in Runs : IsOpen(i) => streams'[i].stops = 1
        /\ ~Mounted =>
             \A i \in Runs : streams[i].opened => streams'[i] = streams[i] ]_vars

\* Unmounted with the stream of the last run, which it held, stopped once.
C7_Witness ==
    /\ phase = "unmounted"
    /\ \E i \in Runs : closures[i].currentStream /\ streams[i].stops = 1

\* C8: no stream acquired by a torn-down run (device-id change or unmount)
\* remains open, whatever the status, and also when the stream arrives after
\* the teardown.
C8_TornDownReleased ==
    \A i \in Runs : ~closures[i].isMounted => ~IsOpen(i)

\* A run torn down in CONNECTED status while it held a stream, and a run whose
\* stream arrived after its teardown.
C8_Witness ==
    /\ status = CONNECTED
    /\ \E i \in Runs : /\ ~closures[i].isMounted
                       /\ closures[i].currentStream
                       /\ streams[i].stops > 0
    /\ \E i \in Runs : /\ ~closures[i].isMounted
                       /\ ~closures[i].currentStream
                       /\ streams[i].opened

\* C9: a stream-open failure handled while mounted sets status to ERROR and
\* records the message the failure name determines: NotAllowedError the
\* permission-denied one, NotReadableError the device-busy one,
\* OverconstrainedError the resolution one, any other name a message that
\* contains the name itself.
C9_Expected(name, msg) ==
    IF name = "NotAllowedError" THEN msg = <<"Permission Denied.">>
    ELSE IF name = "NotReadableError"
    THEN msg = <<"System Busy. Close other camera apps.">>
    ELSE IF name = "OverconstrainedError" THEN msg = <<"Resolution not supported.">>
    ELSE /\ \E k \in 1..Len(msg) : msg[k] = name
         /\ msg \notin {<<"Permission Denied.">>, <<"Resolution not supported.">>,
                        <<"System Busy. Close other camera apps.">>}

C9_FailureMessage ==
    [][ \A i \in Runs :
          (Mounted /\ closures[i].gum = "pending" /\ closures'[i].gum = "rejected") =>
              \A name \in ErrorNames :
                  GumReject(i, name) =>
                      status' = ERROR /\ C9_Expected(name, errorMessage') ]_vars

\* ERROR with the generic message of a failure the code has no case for.
C9_Witness ==
    /\ Mounted
    /\ status = ERROR
    /\ errorMessage # Null
    /\ errorMessage[1] = "NotFoundError"
    /\ \E i \in Runs : closures[i].gum = "rejected"

\* A completion of the getUserMedia of run i, whose cleanup has already run
\* (the device id changed, or the component unmounted).
StaleGum(i) ==
    /\ ~closures[i].isMounted
    /\ closures[i].gum = "pending"
    /\ closures'[i].gum \in {"resolved", "rejected"}

\* The pending play() promises settle, and the stream they were called on is
\* not the stream of the current run.
StalePlay ==
    /\ plays # {}
    /\ plays' = {}
    /\ closures' = closures
    /\ srcObject # cleanupOf

\* C2: a completion of a superseded acquisition attempt (getUserMedia success
\* or failure, play() resolution or rejection of an earlier stream) that
\* arrives after the device id changed or the component unmounted changes
\* none of status, errorMessage, needsUserAction and the current run's stream.
C2_StaleDiscarded ==
    [][ (StalePlay \/ \E i \in Runs : StaleGum(i)) =>
            /\ UNCHANGED <<status, errorMessage, needsUserAction, srcObject>>
            /\ cleanupOf # 0 => closures'[cleanupOf] = closures[cleanupOf] ]_vars

\* C3: while mounted, CONNECTED implies that the controller holds an open
\* stream acquired for the selected device id, and in SCANNING any open
\* stream it holds was acquired for the selected device id.
C3_StreamMatchesSelection ==
    Mounted =>
        /\ status = CONNECTED =>
              /\ cleanupOf # 0
              /\ closures[cleanupOf].currentStream
              /\ IsOpen(cleanupOf)
              /\ closures[cleanupOf].deviceId = selectedDeviceId
        /\ status = SCANNING =>
              \A i \in Runs :
                  closures[i].currentStream /\ IsOpen(i) =>
                      closures[i].deviceId = selectedDeviceId

\* The device the claim's policy selects from a non-empty list: the first
\* entry whose label contains usb, external or uvc in any case, else the first.
C5_Matches(d) ==
    \E sub \in {Str_usb, Str_external, Str_uvc} : includes(toLowerCase(d.label), sub)

C5_Expected(list) ==
    IF \E k \in 1..Len(list) : C5_Matches(list[k])
    THEN list[CHOOSE k \in 1..Len(list) :
                 /\ C5_Matches(list[k])
                 /\ \A j \in 1..(k - 1) : ~C5_Matches(list[j])].deviceId
    ELSE list[1].deviceId

\* C5: a successful scan that finds no device selected and lists at least
\* one video device selects the first entry whose label contains "usb",
\* "external" or "uvc" case-insensitively, else the first entry.
C5_AutoSelect ==
    [][ \A s \in BagToSet(scans), l \in PlatformLists :
          ( /\ Mounted
            /\ selectedDeviceId = Null
            /\ EnumResolve(s, l)
            /\ videoDevicesOf(l) # <<>> ) =>
                selectedDeviceId' = C5_Expected(videoDevicesOf(l)) ]_vars

\* C6: once a device id is selected, no scan that completes changes it.
C6_SelectionKept ==
    [][ ( /\ selectedDeviceId # Null
          /\ phase' = phase
          /\ BagCardinality(scans') < BagCardinality(scans) ) =>
            selectedDeviceId' = selectedDeviceId ]_vars

\* The needs-user-gesture sub-state of the current run: its stream is bound,
\* the affordance is shown and no play() is pending.
Blocked ==
    /\ Mounted
    /\ needsUserAction
    /\ plays = {}
    /\ cleanupOf # 0
    /\ srcObject = cleanupOf

\* C10: blocked playback of the newly bound stream does not put the controller
\* in ERROR, the controller is not CONNECTED while it is in the blocked
\* sub-state, and a retry by the user on the current run's stream whose play()
\* resolves sets CONNECTED and removes the affordance.
C10_BlockedPlayback ==
    [][ /\ (~Blocked /\ Blocked') => (status' = ERROR => status = ERROR)
        /\ Blocked' => status' # CONNECTED
        /\ ( /\ Mounted
              /\ srcObject = cleanupOf
              /\ "user" \in plays
              /\ PlaySettle("resolve") ) =>
               (status' = CONNECTED /\ ~needsUserAction') ]_vars

\* C4: capture-and-analyze is single-flight.  At most one Analysis Client call
\* is outstanding (and then isAnalyzing is set), a call is made only from a
\* state with none outstanding, and while one is outstanding a click on the
\* button makes no call and changes nothing: the analysis state changes only
\* when the call settles.
C4_SingleFlight ==
    /\ [](outstanding <= 1 /\ (outstanding = 1 => isAnalyzing))
    /\ [][ /\ outstanding' > outstanding => (outstanding = 0 /\ ~isAnalyzing)
           /\ \A w \in Widths, h \in Heights, ctx \in BOOLEAN :
                 outstanding >= 1 /\ ClickAnalyze(w, h, ctx) => UNCHANGED vars
           /\ (outstanding >= 1 /\ outstanding' = outstanding) =>
                 UNCHANGED analysisVars ]_vars

\* A call is outstanding while the button's status condition is met: the
\* state in which a further click arrives.
C4_Witness ==
    /\ Mounted
    /\ outstanding = 1
    /\ isAnalyzing
    /\ status = CONNECTED

\* C11: ERROR is terminal per device id.  Once the acquisition for the
\* selected device id has failed and status is ERROR, status leaves ERROR only
\* in a step that changes the selected device id or in the user's retry
\* (Refresh System).
C11_ErrorTerminal ==
    [][ ( /\ Mounted
          /\ status = ERROR
          /\ cleanupOf # 0
          /\ closures[cleanupOf].gum = "rejected"
          /\ closures[cleanupOf].deviceId = selectedDeviceId
          /\ status' # ERROR ) =>
              (selectedDeviceId' # selectedDeviceId \/ Reload) ]_vars

\* C12: capture-and-analyze invoked when the video surface reports zero
\* width or zero height sets the displayed text to exactly
\* "Error: No video data (0x0 resolution)", leaves the in-flight flag clear
\* and makes no Analysis Client call.
C12_DegenerateFrame ==
    [][ \A w \in Widths, h \in Heights, ctx \in BOOLEAN :
          ( /\ w = 0 \/ h = 0
            /\ ~analyzeDisabled
            /\ ClickAnalyze(w, h, ctx) ) =>
                /\ aiResponse' = "Error: No video data (0x0 resolution)"
                /\ ~isAnalyzing'
                /\ outstanding' = outstanding ]_vars

\* The display after a capture of a degenerate frame.
C12_Witness ==
    /\ Mounted
    /\ status = CONNECTED
    /\ aiResponse = "Error: No video data (0x0 resolution)"
    /\ ~isAnalyzing
    /\ outstanding = 0

\* C13: whenever the Analysis Client call made by capture-and-analyze fails,
\* whatever the cause, the displayed text becomes exactly
\* "Analysis failed. Check API configuration." and neither the error raised
\* by the service nor the one analyzeFrame throws is displayed.
C13_AnalysisFailure ==
    [][ \A r \in AnalysisOutcomes \ {"text", "empty"} :
          (Mounted /\ \E now \in Clock : AnalyzeSettle(r, now)) =>
              /\ aiResponse' = "Analysis failed. Check API configuration."
              /\ aiResponse' \notin {RawError(r), analyzeFrame(r).value} ]_vars

\* The display after a failed analysis call.
C13_Witness ==
    /\ Mounted
    /\ aiResponse = "Analysis failed. Check API configuration."
    /\ ~isAnalyzing
    /\ outstanding = 0

\* hour:minute:second of a clock reading, each zero-padded to two digits.
C14_Expected(now) ==
    << Digits[(now.h \div 10) + 1], Digits[(now.h % 10) + 1], ":",
       Digits[(now.m \div 10) + 1], Digits[(now.m % 10) + 1], ":",
       Digits[(now.s \div 10) + 1], Digits[(now.s % 10) + 1] >>

\* The text T the Analysis Client answers with.
C14_Text(r) ==
    IF r = "text" THEN "A wooden table with a laptop." ELSE "No analysis data returned."

\* C14: whenever the Analysis Client call succeeds with text T, the display
\* becomes T together with the zero-padded hour:minute:second of the moment
\* the call completed.
C14_SuccessDisplay ==
    [][ \A r \in {"text", "empty"}, now \in Clock :
          (Mounted /\ AnalyzeSettle(r, now)) =>
              /\ aiResponse' = C14_Text(r)
              /\ lastAnalysisTime' = C14_Expected(now) ]_vars

\* The display after a call that succeeded at 09:05:00.
C14_Witness ==
    /\ Mounted
    /\ aiResponse = "A wooden table with a laptop."
    /\ lastAnalysisTime = <<"0", "9", ":", "0", "5", ":", "0", "0">>
    /\ ~isAnalyzing

\* C15: the fullscreen flag reflects the platform's fullscreen state.  While
\* mounted the flag equals whether the container is the fullscreen element
\* (so it does after every fullscreen-change notification), and a request the
\* platform denies while mounted leaves the flag as it was: false when nothing
\* is fullscreen.
C15_FullscreenFlag ==
    /\ [](Mounted => isFullscreen = fullscreenElement)
    /\ [][ (Mounted /\ FullscreenDenied) =>
              /\ isFullscreen' = isFullscreen
              /\ ~fullscreenElement => ~isFullscreen' ]_vars

\* Fullscreen was left with the platform's own control after a granted
\* request, and the flag followed; a new request is waiting.
C15_Witness ==
    /\ Mounted
    /\ ~fullscreenElement
    /\ ~isFullscreen
    /\ fsQueue = <<"exit", "request">>

\* C16: capture-and-analyze never blocks the UI indefinitely.  Whenever the
\* in-flight flag is set, it is eventually clear again (or the component is
\* gone), also when the Analysis Client is never reached because the frame
\* could not be drawn.
C16_FlagCleared ==
    (Mounted /\ isAnalyzing) ~> (~isAnalyzing \/ ~Mounted)

\* C17: the Analysis Client is invoked only by a capture-and-analyze action
\* taken while status is CONNECTED and no analysis is in flight; in every
\* other status a click on the capture button makes no call and changes nothing.
C17_CallOnlyWhenConnected ==
    [][ /\ outstanding' > outstanding =>
              /\ Mounted
              /\ status = CONNECTED
              /\ ~isAnalyzing
              /\ outstanding = 0
              /\ \E w \in Widths, h \in Heights, ctx \in BOOLEAN : ClickAnalyze(w, h, ctx)
        /\ \A w \in Widths, h \in Heights, ctx \in BOOLEAN :
              (status # CONNECTED /\ ClickAnalyze(w, h, ctx)) => UNCHANGED vars ]_vars

\* A call made while CONNECTED is still outstanding after the status moved on.
C17_Witness ==
    /\ Mounted
    /\ outstanding = 1
    /\ status \in {SCANNING, ERROR}

\* C18: capture-and-analyze leaves ConnectionStatus, the error message and
\* the bound stream unchanged on every path (degenerate frame, analysis
\* success, analysis failure): a step of the handler, and any step that
\* changes the analysis display state without reloading the page, changes
\* no state of the application but isAnalyzing, aiResponse, lastAnalysisTime
\* and the outstanding call.
C18_CaptureFrame ==
    [][ ( \/ \E w \in Widths, h \in Heights, ctx \in BOOLEAN : ClickAnalyze(w, h, ctx)
          \/ \E r \in AnalysisOutcomes, now \in Clock : AnalyzeSettle(r, now)
          \/ (phase' = phase /\ analysisVars' # analysisVars) ) =>
              /\ UNCHANGED <<status, errorMessage, needsUserAction>>
              /\ UNCHANGED <<srcObject, streams, closures, plays>>
              /\ UNCHANGED <<phase, snapshot, selectedDeviceId, selectorVars,
                             fullscreenVars>> ]_vars

\* With the stream of the current run bound and CONNECTED, a failed analysis
\* is displayed after an earlier one succeeded.
C18_Witness ==
    /\ Mounted
    /\ status = CONNECTED
    /\ srcObject = cleanupOf
    /\ aiResponse = "Analysis failed. Check API configuration."
    /\ lastAnalysisTime # NoTime

\* C19: when a scan fails (the permission probe or the enumeration rejects),
\* the Device Enumerator ends with an empty device list and permissionGranted
\* false, also when an earlier scan had listed devices.
C19_FailedScan ==
    [][ \A s \in BagToSet(scans) :
          (Mounted /\ ScanReject(s)) =>
              (devices' = <<>> /\ ~permissionGranted') ]_vars

\* C20: the Device Enumerator holds no persistent stream.  Every probing
\* stream still open belongs to a scan whose enumeration has not finished, so
\* with no scan pending no probing stream is open.
C20_NoProbeLeft ==
    openProbes <= BagCardinality(scans)

\* C21: the Device Enumerator subscribes to the devicechange notification
\* once, on mount, and removes that listener on teardown: at most one of its
\* listeners is registered at any time, none after unmount, and no scan or
\* re-render (a step that leaves the lifecycle phase alone) registers or
\* removes one.
C21_OneListener ==
    /\ [](listeners <= 1)
    /\ [](phase = "unmounted" => listeners = 0)
    /\ [](Mounted => listeners = 1)
    /\ [][ phase' = phase => listeners' = listeners ]_vars

\* A scan has listed devices and selected one (the components re-rendered),
\* then the application was unmounted.
C21_Witness ==
    /\ phase = "unmounted"
    /\ listeners = 0
    /\ devices # <<>>
    /\ selectedDeviceId # Null

\* C22: whenever no device id is selected, status is DISCONNECTED and no
\* stream of the controller is open, initially and also after the device id
\* went from a selected value back to none.
C22_NoneSelected ==
    selectedDeviceId = Null => (status = DISCONNECTED /\ OpenStreams = {})

\* C23: every failure of a platform call (getUserMedia, enumerateDevices,
\* play, requestFullscreen, exitFullscreen, drawing or encoding the frame,
\* the analysis call) is caught where it occurs: none reaches the top level as
\* an uncaught exception or an unhandled promise rejection.
C23_NothingEscapes ==
    ~unhandled

\* C24: each change of the device id to a selected value issues exactly one
\* stream request, for exactly that device id, and the controller issues a
\* stream request in no other step: after a request failed there is none
\* until the device id changes (a retry reloads the page, which selects
\* nothing by itself).
C24_OneRequestPerSelection ==
    [][ /\ (selectedDeviceId' # selectedDeviceId /\ selectedDeviceId' # Null) =>
              /\ nEffects' = nEffects + 1
              /\ closures'[nEffects'].deviceId = selectedDeviceId'
              /\ closures'[nEffects'].gum = "pending"
              /\ \A i \in Runs \ {nEffects'} :
                    closures'[i].gum = "pending" => closures[i].gum = "pending"
        /\ (\E i \in Runs : closures'[i].gum = "pending" /\ closures[i].gum # "pending") =>
              (selectedDeviceId' # selectedDeviceId /\ selectedDeviceId' # Null)
      ]_vars

\* The one request for the selected device has failed, a later scan has come
\* and gone, and no second request was issued.
C24_Witness ==
    /\ Mounted
    /\ selectedDeviceId # Null
    /\ status = ERROR
    /\ nEffects = 1
    /\ closures[1].gum = "rejected"
    /\ closures[1].deviceId = selectedDeviceId
    /\ openProbes = 2
    /\ scans = EmptyBag

\* C25: every change of the device id to a selected value, whatever the
\* status was (DISCONNECTED, SCANNING, CONNECTED or ERROR), leaves status
\* SCANNING, no recorded error message and the needs-user-gesture flag clear,
\* with the new stream request pending.
C25_ResetOnSelection ==
    [][ (selectedDeviceId' # selectedDeviceId /\ selectedDeviceId' # Null) =>
            /\ status' = SCANNING
            /\ errorMessage' = Null
            /\ ~needsUserAction'
            /\ closures'[nEffects'].gum = "pending" ]_vars

\* The first request failed (status ERROR with a recorded message); the
\* device id changed, and the controller is scanning with the message gone.
C25_Witness ==
    /\ Mounted
    /\ nEffects = 2
    /\ closures[1].gum = "rejected"
    /\ closures[2].gum = "pending"
    /\ closures[2].deviceId = selectedDeviceId
    /\ status = SCANNING
    /\ errorMessage = Null
    /\ ~needsUserAction

\* C26: the needs-user-gesture affordance is a sub-state of an acquisition
\* whose stream is bound but not yet playing.  Whenever needsUserAction is
\* true, status is SCANNING (never CONNECTED or ERROR) and the stream bound to
\* the video surface was acquired for the selected device id.
C26_GestureSubState ==
    needsUserAction =>
        /\ status = SCANNING
        /\ srcObject # 0
        /\ closures[srcObject].deviceId = selectedDeviceId

\* C27: the displayed result is replaced as a whole on each capture.  When a
\* capture-and-analyze completes, the timestamp displayed next to its text is
\* its own: the completion time after a success, and after an analysis
\* failure or a degenerate frame not the timestamp an earlier capture left.
C27_ResultReplaced ==
    [][ /\ \A r \in AnalysisOutcomes, now \in Clock :
              (Mounted /\ AnalyzeSettle(r, now)) =>
                  IF analyzeFrame(r).threw
                  THEN lastAnalysisTime' = lastAnalysisTime => lastAnalysisTime = NoTime
                  ELSE lastAnalysisTime' = formatTime(now)
        /\ \A w \in Widths, h \in Heights, ctx \in BOOLEAN :
              (/\ ~analyzeDisabled
               /\ w = 0 \/ h = 0
               /\ ClickAnalyze(w, h, ctx)) =>
                  (lastAnalysisTime' = lastAnalysisTime => lastAnalysisTime = NoTime)
      ]_vars

====
